---- MODULE Spec2Model ----
(***************************************************************************)
(* mruby/c String object (src/c_string.c): the handle/buffer pair, the     *)
(* constructor and destructor, and the String methods + size != to_i <<    *)
(* [] []= ord, over an explicit heap of byte blocks.                       *)
(*                                                                         *)
(* A value slot is a record [tt, handle, i].  A string slot references a   *)
(* handle; the handle holds the address of the buffer; the buffer is a     *)
(* block of bytes in mem.  Lengths are never stored: they are found by     *)
(* scanning for the terminator, as strlen does.                            *)
(***************************************************************************)
EXTENDS Integers, Sequences, FiniteSets, TLC

\* ---------------------------------------------------------------- bounds
MaxLen == 3          \* longest string the runtime constructs
MaxCalls == 1        \* method calls in one run
MaxHandles == 3      \* handle cells the allocator can hand out
MaxAddr == 3         \* buffer blocks the allocator can hand out

\* ------------------------------------------------------------ value model
U == 256             \* content of a byte that was allocated and never written

Alphabet == {49, 97}                 \* '1' and 'a'
JunkBytes == {0} \cup Alphabet       \* what a read of undefined memory may yield
AppendInts == {0 - 159, 0, 49, 256, 353}                        \* operands of <<
IdxInts == {0 - (MaxLen + 1), 0 - 1, 0, 1, MaxLen, MaxLen + 1}  \* index arguments
LenInts == {0 - 1, 0, 1, 2, 100}                                \* span arguments
MaxOff == MaxLen * (2 ^ MaxCalls) + 1 \* largest offset a scan looks at

Addr == 1..MaxAddr
Handle == 1..MaxHandles
Slot == {0, 1}       \* v[0] is the receiver slot, v[1] one further value slot

NilVal == [tt |-> "NIL", handle |-> 0, i |-> 0]
TrueVal == [tt |-> "TRUE", handle |-> 0, i |-> 0]
FalseVal == [tt |-> "FALSE", handle |-> 0, i |-> 0]
FloatVal == [tt |-> "FLOAT", handle |-> 0, i |-> 0]
IntVal(n) == [tt |-> "FIXNUM", handle |-> 0, i |-> n]
StrVal(h) == [tt |-> "STRING", handle |-> h, i |-> 0]

FreeBlock == [live |-> FALSE, b |-> <<>>]
FreeHandle == [live |-> FALSE, str |-> 0, ref |-> 0]

Min(a, b) == IF a < b THEN a ELSE b

NoJunk == [i \in 0..MaxOff |-> 0]
Junk == {[i \in 0..MaxOff |-> x] : x \in JunkBytes}

VARIABLES v, hnd, mem, con, ev, call, ncalls
vars == <<v, hnd, mem, con, ev, call, ncalls>>

\* The state a method works on, threaded through its statements in order.
\*   v    value slots            hnd  handle cells       mem  heap blocks
\*   con  text printed on the console by the call
\*   ev   what the call did to slot 0 and to the heap, in program order
State(pv, ph, pm) == [v |-> pv, hnd |-> ph, mem |-> pm, con |-> "", ev |-> <<>>]

Log(S, e) == [S EXCEPT !.ev = Append(@, e)]

\* -------------------------------------------------------------- the heap
FreeAddrs(m) == {a \in Addr : ~m[a].live}
FreeHandles(h) == {x \in Handle : ~h[x].live}
LowestOf(S) == CHOOSE x \in S : \A y \in S : x <= y

\* A read of one byte at offset i of the block at address a.  A byte that is
\* inside a live block and was written is what was written; any other read
\* (past the block, of a released block, of a byte never written) yields
\* whatever the memory holds, drawn from junk.
Defined(m, a, i) == a \in Addr /\ m[a].live /\ i >= 0 /\ i < Len(m[a].b) /\ m[a].b[i + 1] # U
RdByte(m, a, i, junk) ==
  IF Defined(m, a, i) THEN m[a].b[i + 1]
  ELSE IF i \in DOMAIN junk THEN junk[i] ELSE 0

RdBytes(m, a, off, n, junk) == [k \in 1..n |-> RdByte(m, a, off + k - 1, junk)]

WrByte(m, a, i, x) ==
  IF a \in Addr /\ m[a].live /\ i >= 0 /\ i < Len(m[a].b)
  THEN [m EXCEPT ![a].b[i + 1] = x] ELSE m

\* strlen: the offset of the first zero byte.
strlen(m, a, junk) ==
  CHOOSE n \in 0..(MaxOff + 1) :
    /\ RdByte(m, a, n, junk) = 0
    /\ \A k \in 0..(n - 1) : RdByte(m, a, k, junk) # 0

\* How a read of bytes [lo, hi) through address a stands to the allocation.
ReadKind(m, a, lo, hi) ==
  IF hi <= lo THEN "none"
  ELSE IF ~(a \in Addr /\ m[a].live) THEN "read_freed"
  ELSE IF lo < 0 \/ hi > Len(m[a].b) THEN "read_oob"
  ELSE IF \E k \in lo..(hi - 1) : m[a].b[k + 1] = U THEN "read_uninit"
  ELSE "read"

\* MRBC_STRING_CSTR(s): the buffer address held by the handle of slot value s.
CSTR(S, s) == IF s.handle \in Handle THEN S.hnd[s.handle].str ELSE 0

\* The bytes of a string up to its terminator (the string a reader sees).
Bytes(m, a) == RdBytes(m, a, 0, strlen(m, a, NoJunk), NoJunk)
Terminated(m, a) ==
  a \in Addr /\ m[a].live /\ \E k \in 1..Len(m[a].b) : m[a].b[k] = 0 /\ \A j \in 1..(k - 1) : m[a].b[j] # U

\* ------------------------------------------------------------- events
\* e: "read"    bytes [lo, hi) were read; h: the handle whose pointer the read
\*              went through (0: a local pointer); k: how the read stands
\*              to the allocation
\*    "release" slot 0 was released (h: the handle it held)
\*    "write"   slot 0 was overwritten
\*    "new"     mrbc_string_new returned; k: "ok" or why it failed; h: handle
\*    "realloc" mrbc_realloc returned; k: "fail" | "inplace" | "move";
\*              h: the receiver's handle; lo: bytes asked for; hi: the result
\*    "setstr"  the handle's buffer pointer was set to hi
Ev(e, h, k) == [e |-> e, h |-> h, k |-> k, lo |-> 0, hi |-> 0]
EvAt(e, h, k, lo, hi) == [e |-> e, h |-> h, k |-> k, lo |-> lo, hi |-> hi]
LogRead(S, s, lo, hi) ==
  Log(S, EvAt("read", s.handle, ReadKind(S.mem, CSTR(S, s), lo, hi), lo, hi))
LogNew(R, oc) ==
  Log(R.S, Ev("new", R.val.handle,
              IF R.val.handle # 0 THEN "ok" ELSE IF oc = "ok" THEN "nomem" ELSE oc))

console_print(S, text) == [S EXCEPT !.con = text]

\* ---------------------------------------------------------- the allocator
\* mrbc_alloc for a buffer of n bytes; ok is the allocator's answer.  The
\* result is the address, 0 for failure.  A fresh block is unwritten.
mrbc_alloc(S, n, ok) ==
  IF ok /\ FreeAddrs(S.mem) # {}
  THEN LET a == LowestOf(FreeAddrs(S.mem))
       IN [S |-> [S EXCEPT !.mem[a] = [live |-> TRUE, b |-> [k \in 1..n |-> U]]], p |-> a]
  ELSE [S |-> S, p |-> 0]

\* mrbc_alloc for a handle cell; a fresh handle has reference count 1.
mrbc_alloc_handle(S, ok) ==
  IF ok /\ FreeHandles(S.hnd) # {}
  THEN LET h == LowestOf(FreeHandles(S.hnd))
       IN [S |-> [S EXCEPT !.hnd[h] = [live |-> TRUE, str |-> 0, ref |-> 1]], p |-> h]
  ELSE [S |-> S, p |-> 0]

mrbc_raw_free(S, a) == IF a \in Addr THEN [S EXCEPT !.mem[a] = FreeBlock] ELSE S
mrbc_raw_free_handle(S, h) == IF h \in Handle THEN [S EXCEPT !.hnd[h] = FreeHandle] ELSE S

\* mrbc_realloc(a, n): oc is the allocator's answer.  "fail" leaves the block
\* alone and returns 0; otherwise the first min(old, n) bytes are kept and
\* the rest of the new block is unwritten; "move" puts the new block at
\* another address and releases the old one.
Resized(b, n) == [k \in 1..n |-> IF k <= Len(b) THEN b[k] ELSE U]
mrbc_realloc(S, a, n, oc) ==
  IF oc = "fail" \/ ~(a \in Addr /\ S.mem[a].live) THEN [S |-> S, p |-> 0, how |-> "fail"]
  ELSE IF oc = "move" /\ FreeAddrs(S.mem) # {}
  THEN LET na == LowestOf(FreeAddrs(S.mem))
       IN [S |-> [S EXCEPT !.mem[na] = [live |-> TRUE, b |-> Resized(S.mem[a].b, n)],
                           !.mem[a] = FreeBlock],
           p |-> na, how |-> "move"]
  ELSE [S |-> [S EXCEPT !.mem[a].b = Resized(@, n)], p |-> a, how |-> "inplace"]

\* ------------------------------------------------------------ byte copies
RECURSIVE CopyFwd(_, _, _, _, _, _, _, _)
CopyFwd(m, da, doff, sa, soff, n, k, junk) ==
  IF k >= n THEN m
  ELSE CopyFwd(WrByte(m, da, doff + k, RdByte(m, sa, soff + k, junk)),
               da, doff, sa, soff, n, k + 1, junk)

RECURSIVE CopyBwd(_, _, _, _, _, _, _, _)
CopyBwd(m, da, doff, sa, soff, n, k, junk) ==
  IF k < 0 THEN m
  ELSE CopyBwd(WrByte(m, da, doff + k, RdByte(m, sa, soff + k, junk)),
               da, doff, sa, soff, n, k - 1, junk)

\* memcpy: the order of the byte copies is the library's choice (dir); it
\* shows only when source and destination overlap.
memcpy(m, da, doff, sa, soff, n, junk, dir) ==
  IF dir = "fwd" THEN CopyFwd(m, da, doff, sa, soff, n, 0, junk)
  ELSE CopyBwd(m, da, doff, sa, soff, n, n - 1, junk)

RECURSIVE WrBytes(_, _, _, _, _)
WrBytes(m, a, off, bs, k) ==
  IF k > Len(bs) THEN m ELSE WrBytes(WrByte(m, a, off + k - 1, bs[k]), a, off, bs, k + 1)

\* memmove: as if the source were read whole before the first write.
memmove(m, da, doff, sa, soff, n, junk) ==
  WrBytes(m, da, doff, RdBytes(m, sa, soff, n, junk), 1)

\* ------------------------------------------------- constructor, destructor
\* mrbc_string_new(vm, src, len).  src is [null, b]: NULL, or the len bytes
\* at the source pointer.  oc: "nohandle" | "nobuf" | "ok".
NullSrc == [null |-> TRUE, b |-> <<>>]
BytesSrc(bs) == [null |-> FALSE, b |-> bs]

\* Fault variant: the handle is not freed when the buffer cannot be allocated.
mrbc_string_new_leak(S, src, len, oc) ==
  LET H == mrbc_alloc_handle(S, oc # "nohandle")
  IN IF H.p = 0 THEN [S |-> S, val |-> StrVal(0)]
     ELSE LET B == mrbc_alloc(H.S, len + 1, oc = "ok")
          IN IF B.p = 0
             THEN [S |-> B.S, val |-> StrVal(0)]
             ELSE LET S1 == [B.S EXCEPT !.hnd[H.p].str = B.p]
                      m1 == IF src.null THEN WrByte(S1.mem, B.p, 0, 0)
                            ELSE WrByte(WrBytes(S1.mem, B.p, 0, src.b, 1), B.p, len, 0)
                  IN [S |-> [S1 EXCEPT !.mem = m1], val |-> StrVal(H.p)]

mrbc_string_new(S, src, len, oc) ==
  LET H == mrbc_alloc_handle(S, oc # "nohandle")
  IN IF H.p = 0 THEN [S |-> S, val |-> StrVal(0)]
     ELSE LET B == mrbc_alloc(H.S, len + 1, oc = "ok")
          IN IF B.p = 0
             THEN [S |-> mrbc_raw_free_handle(B.S, H.p), val |-> StrVal(0)]
             ELSE LET S1 == [B.S EXCEPT !.hnd[H.p].str = B.p]
                      m1 == IF src.null THEN WrByte(S1.mem, B.p, 0, 0)
                            ELSE WrByte(WrBytes(S1.mem, B.p, 0, src.b, 1), B.p, len, 0)
                  IN [S |-> [S1 EXCEPT !.mem = m1], val |-> StrVal(H.p)]

\* mrbc_string_delete: the buffer, then the handle.
mrbc_string_delete(S, val) ==
  mrbc_raw_free_handle(mrbc_raw_free(S, S.hnd[val.handle].str), val.handle)

\* mrbc_release(vm, v + slot): one reference less; the object is deleted
\* with its last reference.
mrbc_release(S, slot) ==
  LET val == S.v[slot]
      S1 == IF slot = 0 THEN Log(S, Ev("release", val.handle, "")) ELSE S
  IN IF val.tt = "STRING" /\ val.handle \in Handle /\ S1.hnd[val.handle].live
     THEN IF S1.hnd[val.handle].ref <= 1 THEN mrbc_string_delete(S1, val)
          ELSE [S1 EXCEPT !.hnd[val.handle].ref = @ - 1]
     ELSE S1

SET_RETURN(S, val) == Log([S EXCEPT !.v[0] = val], Ev("write", 0, ""))

\* ------------------------------------------------------------ the methods
\* Each method takes the state, the frame F (F[0] is the receiver slot v[0],
\* F[1..3] the arguments GET_ARG(1..3)) and the answers of the environment
\* (junk: undefined memory, oc: the allocator, dir: memcpy's order), and
\* returns the state after the call.

\* (method) +
c_string_add(S, F, junk, oc) ==
  LET s1 == F[0]
      s2 == F[1]
  IN IF s2.tt # "STRING" THEN console_print(S, "Not support STRING + Other\n")
     ELSE LET len1 == strlen(S.mem, CSTR(S, s1), junk)
              Sa == LogRead(S, s1, 0, len1 + 1)
              len2 == strlen(Sa.mem, CSTR(Sa, s2), junk)
              Sb == LogRead(Sa, s2, 0, len2 + 1)
              R == mrbc_string_new(Sb, NullSrc, len1 + len2, oc)
              Sn == LogNew(R, oc)
          IN IF R.val.handle = 0 THEN Sn
             ELSE LET p == CSTR(Sn, R.val)
                      Sc == LogRead(Sn, s1, 0, len1)
                      m1 == memcpy(Sc.mem, p, 0, CSTR(Sc, s1), 0, len1, junk, "fwd")
                      Sd == LogRead([Sc EXCEPT !.mem = m1], s2, 0, len2 + 1)
                      m2 == memcpy(Sd.mem, p, len1, CSTR(Sd, s2), 0, len2 + 1, junk, "fwd")
                  IN SET_RETURN(mrbc_release([Sd EXCEPT !.mem = m2], 0), R.val)

\* (method) size, length
c_string_size(S, F, junk) ==
  LET i == strlen(S.mem, CSTR(S, F[0]), junk)
      Sa == LogRead(S, F[0], 0, i + 1)
  IN SET_RETURN(mrbc_release(Sa, 0), IntVal(i))

\* mrbc_eq: type tag, then content.
mrbc_eq(S, x, y, junk) ==
  /\ x.tt = y.tt
  /\ x.tt = "FIXNUM" => x.i = y.i
  /\ x.tt = "STRING" =>
       LET lx == strlen(S.mem, CSTR(S, x), junk)
           ly == strlen(S.mem, CSTR(S, y), junk)
       IN lx = ly /\ RdBytes(S.mem, CSTR(S, x), 0, lx, junk) = RdBytes(S.mem, CSTR(S, y), 0, ly, junk)

\* (method) !=
c_string_neq(S, F, junk) ==
  LET result == mrbc_eq(S, F[0], F[1], junk)
      Sa == LogRead(S, F[0], 0, strlen(S.mem, CSTR(S, F[0]), junk) + 1)
      Sb == mrbc_release(Sa, 0)
  IN IF result THEN SET_RETURN(Sb, FalseVal) ELSE SET_RETURN(Sb, TrueVal)

\* atoi: optional blanks, an optional sign, then decimal digits.
IsSpace(c) == c = 32 \/ (c >= 9 /\ c <= 13)
IsDigit(c) == c >= 48 /\ c <= 57
\* A value past the largest long is LONG_MAX (strtol); long has 32 bits on
\* the targets of this VM, so does int.
IntMax == 2147483647
RECURSIVE Digits(_, _, _)
Digits(bs, k, acc) ==
  IF k <= Len(bs) /\ IsDigit(bs[k])
  THEN IF acc > (IntMax - (bs[k] - 48)) \div 10 THEN IntMax
       ELSE Digits(bs, k + 1, acc * 10 + (bs[k] - 48))
  ELSE acc
RECURSIVE SkipSpace(_, _)
SkipSpace(bs, k) == IF k <= Len(bs) /\ IsSpace(bs[k]) THEN SkipSpace(bs, k + 1) ELSE k
atoi(bs) ==
  LET k == SkipSpace(bs, 1)
  IN IF k <= Len(bs) /\ bs[k] = 45 THEN 0 - Digits(bs, k + 1, 0)
     ELSE IF k <= Len(bs) /\ bs[k] = 43 THEN Digits(bs, k + 1, 0)
     ELSE Digits(bs, k, 0)

\* (method) to_i
c_string_to_i(S, F, junk) ==
  LET len == strlen(S.mem, CSTR(S, F[0]), junk)
      i == atoi(RdBytes(S.mem, CSTR(S, F[0]), 0, len, junk))
      Sa == LogRead(S, F[0], 0, len + 1)
  IN SET_RETURN(mrbc_release(Sa, 0), IntVal(i))

\* (method) ord.  Bytes here stay below 128, where char's sign does not show.
\* Fault variant: the receiver is released before its first byte is read.
c_string_ord_early(S, F, junk) ==
  LET Sa == mrbc_release(S, 0)
      i == RdByte(Sa.mem, CSTR(S, F[0]), 0, junk)
      Sb == LogRead(Sa, F[0], 0, 1)
  IN SET_RETURN(Sb, IntVal(i))

c_string_ord(S, F, junk) ==
  LET i == RdByte(S.mem, CSTR(S, F[0]), 0, junk)
      Sa == LogRead(S, F[0], 0, 1)
  IN SET_RETURN(mrbc_release(Sa, 0), IntVal(i))

\* v->handle->str = (char *)str
\* Fault variant: the handle keeps the pointer it had.
SetStr_stale(S, h, str) == Log(S, EvAt("setstr", h, "", 0, S.hnd[h].str))

SetStr(S, h, str) == Log([S EXCEPT !.hnd[h].str = str], EvAt("setstr", h, "", 0, str))

\* str[len1] = v2->i; str[len1+1] = '\0'.  The store keeps the low 8 bits.
\* Fault variant: the byte is stored without the terminator after it.
AppendFixnum_noterm(m, str, len1, i) == WrByte(m, str, len1, i % 256)

AppendFixnum(m, str, len1, i) == WrByte(WrByte(m, str, len1, i % 256), str, len1 + 1, 0)

\* (method) <<
c_string_append(S, F, junk, oc, dir) ==
  LET v2 == F[1]
      h == F[0].handle
      len1 == strlen(S.mem, CSTR(S, F[0]), junk)
      Sa == LogRead(S, F[0], 0, len1 + 1)
      len2 == IF v2.tt = "STRING" THEN strlen(Sa.mem, CSTR(Sa, v2), junk) ELSE 1
      Sb == IF v2.tt = "STRING" THEN LogRead(Sa, v2, 0, len2 + 1) ELSE Sa
      R == mrbc_realloc(Sb, CSTR(Sb, F[0]), len1 + len2 + 1, oc)
      Sc == Log(R.S, EvAt("realloc", h, R.how, len1 + len2 + 1, R.p))
      str == R.p
  IN IF str = 0 THEN Sc
     ELSE LET Sd == IF v2.tt = "STRING"
                    THEN LET Sr == LogRead(Sc, v2, 0, len2 + 1)
                         IN [Sr EXCEPT !.mem = memcpy(Sr.mem, str, len1, CSTR(Sr, v2), 0,
                                                      len2 + 1, junk, dir)]
                    ELSE IF v2.tt = "FIXNUM"
                    THEN [Sc EXCEPT !.mem = AppendFixnum(Sc.mem, str, len1, v2.i)]
                    ELSE Sc
          IN SetStr(Sd, h, str)

\* if( idx < 0 ) idx += len
AdjustIndex(i, len) == IF i < 0 THEN i + len ELSE i

\* slice(nth): the index the byte is fetched at, and whether it is fetched.
NthIndex(i, len) == IF i >= 0 THEN i ELSE i + len

\* Fault variant: a negative index is fetched without the idx >= 0 test.
NthFetch_nocheck(i, len) == IF i >= 0 THEN i < len ELSE TRUE

NthFetch(i, len) == IF i >= 0 THEN i < len ELSE i + len >= 0

\* min( v2->i, (len-idx) )
\* Fault variant: the span is not clamped to the bytes that remain.
SliceLen_noclamp(n, len, idx) == n

SliceLen(n, len, idx) == IF n < len - idx THEN n ELSE len - idx

\* (method) []
c_string_slice(S, F, argc, junk, oc) ==
  LET v1 == F[1]
      v2 == F[2]
      a == CSTR(S, F[0])
      len == strlen(S.mem, a, junk)
      Sa == LogRead(S, F[0], 0, len + 1)
  IN IF argc = 1 /\ v1.tt = "FIXNUM"
     THEN \* slice(nth) -> String | nil
          LET idx == NthIndex(v1.i, len)
              fetch == NthFetch(v1.i, len)
              ch == IF fetch THEN RdByte(Sa.mem, a, idx, junk) ELSE 0
              Sb == IF fetch THEN LogRead(Sa, F[0], idx, idx + 1) ELSE Sa
          IN IF ch > 0
             THEN LET R == mrbc_string_new(Sb, NullSrc, 1, oc)
                      Sn == LogNew(R, oc)
                  IN IF R.val.handle = 0 THEN Sn
                     ELSE LET p == CSTR(Sn, R.val)
                              m1 == WrByte(WrByte(Sn.mem, p, 0, ch), p, 1, 0)
                          IN SET_RETURN(mrbc_release([Sn EXCEPT !.mem = m1], 0), R.val)
             ELSE SET_RETURN(mrbc_release(Sb, 0), NilVal)
     ELSE IF argc = 2 /\ v1.tt = "FIXNUM" /\ v2.tt = "FIXNUM"
     THEN \* slice(nth, len) -> String | nil
          LET idx == AdjustIndex(v1.i, len)
              rlen == SliceLen(v2.i, len, idx)
          IN IF idx >= 0 /\ rlen >= 0
             THEN LET R == mrbc_string_new(Sa, BytesSrc(RdBytes(Sa.mem, a, idx, rlen, junk)),
                                           rlen, oc)
                      Sn == LogNew(R, oc)
                  IN IF R.val.handle = 0 THEN Sn
                     ELSE SET_RETURN(mrbc_release(LogRead(Sn, F[0], idx, idx + rlen), 0), R.val)
             ELSE SET_RETURN(mrbc_release(Sa, 0), NilVal)
     ELSE console_print(S, "Not support such case in String#[].\n")

\* if( nth < 0 ) nth = len1 + nth
AdjustNth(nth, len1) == IF nth < 0 THEN len1 + nth ELSE nth

\* if( len > len1 - nth ) len = len1 - nth
ClampSpan(len, len1, nth) == IF len > len1 - nth THEN len1 - nth ELSE len

\* if( nth < 0 || nth > len1 || len < 0)
\* Fault variant: an index equal to the length is refused.
IndexError_strict(nth, len1, len) == nth < 0 \/ nth >= len1 \/ len < 0

IndexError(nth, len1, len) == nth < 0 \/ nth > len1 \/ len < 0

\* (method) []=
c_string_insert(S, F, argc, junk, oc, dir) ==
  LET one == argc = 2 /\ F[1].tt = "FIXNUM" /\ F[2].tt = "STRING"
      two == argc = 3 /\ F[1].tt = "FIXNUM" /\ F[2].tt = "FIXNUM" /\ F[3].tt = "STRING"
  IN IF ~one /\ ~two THEN console_print(S, "Not support\n")
     ELSE LET val == IF one THEN F[2] ELSE F[3]
              h == F[0].handle
              len1 == strlen(S.mem, CSTR(S, F[0]), junk)
              Sa == LogRead(S, F[0], 0, len1 + 1)
              len2 == strlen(Sa.mem, CSTR(Sa, val), junk)
              Sb == LogRead(Sa, val, 0, len2 + 1)
              nth == AdjustNth(F[1].i, len1)
              len0 == IF one THEN 1 ELSE F[2].i
              len == ClampSpan(len0, len1, nth)
          IN IF IndexError(nth, len1, len) THEN console_print(Sb, "IndexError\n")
             ELSE LET R == mrbc_realloc(Sb, CSTR(Sb, F[0]), len1 + len2 - len + 1, oc)
                      Sc == Log(R.S, EvAt("realloc", h, R.how, len1 + len2 - len + 1, R.p))
                      str == R.p
                  IN IF str = 0 THEN Sc
                     ELSE LET Sd == Log(Sc, EvAt("read", 0, ReadKind(Sc.mem, str, nth + len, len1),
                                                 nth + len, len1))
                              m1 == memmove(Sd.mem, str, nth + len2, str, nth + len,
                                            len1 - nth - len, junk)
                              Se == LogRead([Sd EXCEPT !.mem = m1], val, 0, len2)
                              m2 == memcpy(Se.mem, str, nth, CSTR(Se, val), 0, len2, junk, dir)
                              m3 == WrByte(m2, str, len1 + len2 - len, 0)
                          IN SetStr([Se EXCEPT !.mem = m3], h, str)

\* mrbc_string_new_cstr: the length is that of the text.
CStrLen(text) == IF \E k \in 1..Len(text) : text[k] = 0
                 THEN (CHOOSE k \in 1..Len(text) : text[k] = 0 /\ \A j \in 1..(k - 1) : text[j] # 0) - 1
                 ELSE Len(text)
mrbc_string_new_cstr(S, text, oc) ==
  mrbc_string_new(S, BytesSrc(SubSeq(text, 1, CStrLen(text))), CStrLen(text), oc)

\* ------------------------------------------------------------- the calls
S0 == State(v, hnd, mem)

\* The frame of a call: slot 0 and the three argument positions.
Frame(a1, a2, a3) == [k \in 0..3 |-> IF k = 0 THEN v[0] ELSE IF k = 1 THEN a1
                                     ELSE IF k = 2 THEN a2 ELSE a3]
NoFrame == [k \in 0..3 |-> NilVal]

\* An integer or float argument is an input of the call; a string (or nil)
\* argument is the other value slot.
SlotArgs == {v[1]}
IdxArgs == {IntVal(n) : n \in IdxInts}
LenArgs == {IntVal(n) : n \in LenInts}
AppendArgs == {IntVal(n) : n \in AppendInts}

NewOutcomes == {"nohandle", "nobuf", "ok"}
ReallocOutcomes == {"fail", "inplace", "move"}
Dirs(F, val) == IF val.tt = "STRING" /\ val.handle = F[0].handle THEN {"fwd", "bwd"} ELSE {"fwd"}

\* Undefined memory is consulted only by a call that reads it.
NeedsJunk(T) == \E i \in DOMAIN T.ev : T.ev[i].e = "read" /\ T.ev[i].k \notin {"read", "none"}
JunkFor(T) == IF NeedsJunk(T) THEN Junk ELSE {NoJunk}

Idle == call.op = "none"
NoCall == [op |-> "none", argc |-> 0, F |-> NoFrame,
           pre |-> [v |-> NoFrame, hnd |-> <<>>, mem |-> <<>>]]

\* The state after a step; call keeps what was called and the state before.
Commit(S, op, argc, F) ==
  \E R \in {S} :
    /\ v' = R.v
    /\ hnd' = R.hnd
    /\ mem' = R.mem
    /\ con' = R.con
    /\ ev' = R.ev
    /\ call' = [op |-> op, argc |-> argc, F |-> F,
                pre |-> [v |-> v, hnd |-> hnd, mem |-> mem]]

\* A method of String is dispatched on a receiver that is a string.
CanCall == Idle /\ ncalls < MaxCalls /\ v[0].tt = "STRING"
Called == ncalls' = ncalls + 1

\* The frames [] and []= are called with: the well-typed ones, and some the
\* methods do not support.
SliceFrames(argc) ==
  IF argc = 1 THEN {Frame(a1, NilVal, NilVal) : a1 \in IdxArgs \cup {FloatVal}}
  ELSE {Frame(a1, a2, NilVal) : a1 \in IdxArgs, a2 \in LenArgs}
       \cup {Frame(IntVal(0), FloatVal, NilVal), Frame(FloatVal, IntVal(1), NilVal)}
InsertFrames(argc) ==
  IF argc = 2 THEN {Frame(a1, a2, NilVal) : a1 \in IdxArgs, a2 \in SlotArgs}
                   \cup {Frame(FloatVal, a2, NilVal) : a2 \in SlotArgs}
                   \cup {Frame(IntVal(0), IntVal(1), NilVal)}
  ELSE {Frame(a1, a2, a3) : a1 \in IdxArgs, a2 \in LenArgs, a3 \in SlotArgs}
       \cup {Frame(IntVal(0), a3, a3) : a3 \in SlotArgs}

Add ==
  /\ CanCall /\ Called
  /\ \E a1 \in SlotArgs \cup {IntVal(1)}, oc \in NewOutcomes :
       LET F == Frame(a1, NilVal, NilVal)
       IN \E junk \in JunkFor(c_string_add(S0, F, NoJunk, oc)) :
            Commit(c_string_add(S0, F, junk, oc), "add", 1, F)

Size ==
  /\ CanCall /\ Called
  /\ LET F == Frame(NilVal, NilVal, NilVal)
     IN \E junk \in JunkFor(c_string_size(S0, F, NoJunk)) :
          Commit(c_string_size(S0, F, junk), "size", 0, F)

Neq ==
  /\ CanCall /\ Called
  /\ \E a1 \in SlotArgs \cup {IntVal(1)} :
       LET F == Frame(a1, NilVal, NilVal)
       IN \E junk \in JunkFor(c_string_neq(S0, F, NoJunk)) :
            Commit(c_string_neq(S0, F, junk), "neq", 1, F)

ToI ==
  /\ CanCall /\ Called
  /\ LET F == Frame(NilVal, NilVal, NilVal)
     IN \E junk \in JunkFor(c_string_to_i(S0, F, NoJunk)) :
          Commit(c_string_to_i(S0, F, junk), "to_i", 0, F)

Ord ==
  /\ CanCall /\ Called
  /\ LET F == Frame(NilVal, NilVal, NilVal)
     IN \E junk \in JunkFor(c_string_ord(S0, F, NoJunk)) :
          Commit(c_string_ord(S0, F, junk), "ord", 0, F)

AppendOp ==
  /\ CanCall /\ Called
  /\ \E a1 \in SlotArgs \cup AppendArgs \cup {FloatVal}, oc \in ReallocOutcomes :
       LET F == Frame(a1, NilVal, NilVal)
       IN \E dir \in Dirs(F, a1) :
            \E junk \in JunkFor(c_string_append(S0, F, NoJunk, oc, dir)) :
              Commit(c_string_append(S0, F, junk, oc, dir), "append", 1, F)

Slice ==
  /\ CanCall /\ Called
  /\ \E argc \in 1..2, oc \in NewOutcomes :
       \E F \in SliceFrames(argc) :
         \E junk \in JunkFor(c_string_slice(S0, F, argc, NoJunk, oc)) :
           Commit(c_string_slice(S0, F, argc, junk, oc), "slice", argc, F)

Insert ==
  /\ CanCall /\ Called
  /\ \E argc \in 2..3, oc \in ReallocOutcomes :
       \E F \in InsertFrames(argc) :
         \E dir \in Dirs(F, IF argc = 2 THEN F[2] ELSE F[3]) :
           \E junk \in JunkFor(c_string_insert(S0, F, argc, NoJunk, oc, dir)) :
             Commit(c_string_insert(S0, F, argc, junk, oc, dir), "insert", argc, F)

\* The surrounding runtime.  Before the first call it builds the program's
\* strings: it stores a fresh string into a slot, or copies slot 0 to slot 1
\* (one more reference to the same handle).  After a call it goes on to the
\* next instruction: the frame's arguments and the call's output are gone.
Pattern == [k \in 1..MaxLen |-> IF k % 2 = 1 THEN 97 ELSE 49]
Texts == {SubSeq(Pattern, 1, k) : k \in 0..MaxLen}

RtNew ==
  /\ Idle /\ ncalls = 0
  /\ \E k \in Slot, text \in Texts, oc \in NewOutcomes :
       LET Sr == mrbc_release(S0, k)
           R == mrbc_string_new_cstr(Sr, text, oc)
           S1 == [R.S EXCEPT !.v[k] = IF R.val.handle = 0 THEN NilVal ELSE R.val,
                             !.ev = <<>>]
       IN /\ v' = S1.v /\ hnd' = S1.hnd /\ mem' = S1.mem
          /\ UNCHANGED <<con, ev, call, ncalls>>

RtDup ==
  /\ Idle /\ ncalls = 0
  /\ v[0].tt = "STRING"
  /\ LET Sr == mrbc_release([S0 EXCEPT !.hnd[v[0].handle].ref = @ + 1], 1)
     IN /\ v' = [Sr.v EXCEPT ![1] = v[0]] /\ hnd' = Sr.hnd /\ mem' = Sr.mem
        /\ UNCHANGED <<con, ev, call, ncalls>>

RtReturn ==
  /\ ~Idle
  /\ call' = NoCall /\ ev' = <<>> /\ con' = ""
  /\ UNCHANGED <<v, hnd, mem, ncalls>>

Init ==
  /\ v = [k \in Slot |-> NilVal]
  /\ hnd = [h \in Handle |-> FreeHandle]
  /\ mem = [a \in Addr |-> FreeBlock]
  /\ con = ""
  /\ ev = <<>>
  /\ call = NoCall
  /\ ncalls = 0

Next ==
  \/ Add
  \/ Size
  \/ Neq
  \/ ToI
  \/ Ord
  \/ AppendOp
  \/ Slice
  \/ Insert
  \/ RtNew
  \/ RtDup
  \/ RtReturn

Spec == Init /\ [][Next]_vars

\* ====================================================== the properties
\* What the last call was given, and the state it started from.
Pre == call.pre
Recv == call.F[0]
RH == Recv.handle
WellFormed(val) ==
  /\ val.tt = "STRING"
  /\ val.handle \in Handle
  /\ Pre.hnd[val.handle].live
  /\ Terminated(Pre.mem, Pre.hnd[val.handle].str)
PreBytes(val) == Bytes(Pre.mem, Pre.hnd[val.handle].str)
CurBytes(val) == Bytes(mem, hnd[val.handle].str)
Events(e) == {i \in DOMAIN ev : ev[i].e = e}
ReallocDone == \E i \in Events("realloc") : ev[i].k # "fail"
ReallocFailed == \E i \in Events("realloc") : ev[i].k = "fail"
NewDone == \E i \in Events("new") : ev[i].k = "ok"
NewFailed == \E i \in Events("new") : ev[i].k # "ok"
ReallocPtr == ev[CHOOSE i \in Events("realloc") : TRUE].hi
Fresh(val) == val.tt = "STRING" /\ val.handle \in Handle /\ ~Pre.hnd[val.handle].live
ReadsOutside(hi) ==
  \E i \in Events("read") : ev[i].k # "none" /\ (ev[i].k # "read" \/ ev[i].lo < 0 \/ ev[i].hi > hi)

\* The index arithmetic as the specification words it.
SpecIdx(i, L) == IF i < 0 THEN i + L ELSE i
SpecSpan(n, L, i2) == Min(n, L - i2)
Spliced(r, i2, s, p) == SubSeq(r, 1, i2) \o p \o SubSeq(r, i2 + s + 1, Len(r))

\* []= with well-typed arguments: self[nth] = val or self[nth, len] = val.
InsertTyped ==
  /\ call.op = "insert"
  /\ \/ call.argc = 2 /\ call.F[1].tt = "FIXNUM" /\ call.F[2].tt = "STRING"
     \/ call.argc = 3 /\ call.F[1].tt = "FIXNUM" /\ call.F[2].tt = "FIXNUM"
                      /\ call.F[3].tt = "STRING"
InsVal == IF call.argc = 2 THEN call.F[2] ELSE call.F[3]
InsIdx == SpecIdx(call.F[1].i, Len(PreBytes(Recv)))
InsSpan == SpecSpan(IF call.argc = 2 THEN 1 ELSE call.F[2].i, Len(PreBytes(Recv)), InsIdx)
InsIndexError == InsIdx < 0 \/ InsIdx > Len(PreBytes(Recv)) \/ InsSpan < 0
InsertCase == InsertTyped /\ WellFormed(Recv) /\ WellFormed(InsVal)

\* C1: a []= that passes the index check and whose reallocation succeeds
\* leaves the receiver equal to r[0,index) p r[index+s,L), terminated at
\* L - s + length(p), also when p is shorter than the span it replaces.
C1_SpliceResult ==
  (InsertCase /\ ~InsIndexError /\ ReallocDone) =>
    LET r == PreBytes(Recv)
        p == PreBytes(InsVal)
        n == Len(r) - InsSpan + Len(p)
        a == hnd[RH].str
    IN /\ v[0] = Recv
       /\ a \in Addr /\ mem[a].live
       /\ Len(mem[a].b) >= n + 1
       /\ mem[a].b[n + 1] = 0
       /\ CurBytes(Recv) = Spliced(r, InsIdx, InsSpan, p)

AllocFailed == NewFailed \/ ReallocFailed
\* C2: when allocate or reallocate fails inside + << [] []=, the call returns
\* with every slot, every handle (buffer pointer, reference count) and every
\* heap block (bytes, allocations) as before the call.
C2_AllocFailureKeepsState ==
  (call.op \in {"add", "append", "slice", "insert"} /\ AllocFailed) =>
    /\ v = Pre.v
    /\ hnd = Pre.hnd
    /\ mem = Pre.mem

C2_Witness ==
  /\ call.op = "add"
  /\ \E i \in Events("new") : ev[i].k = "nobuf"
  /\ v[0] = Recv

\* C3: after a successful << or []= every slot still holds what it held, the
\* receiver's handle is the same live handle with the same reference count,
\* its buffer pointer is the block reallocate returned and that block is
\* live, and every slot on that handle resolves to that block; in
\* every state, a string slot's handle and its buffer are live.
C3_AliasSeesMutation ==
  /\ \A k \in Slot : v[k].tt = "STRING" =>
       /\ v[k].handle \in Handle /\ hnd[v[k].handle].live
       /\ hnd[v[k].handle].str \in Addr /\ mem[hnd[v[k].handle].str].live
  /\ (call.op \in {"append", "insert"} /\ ReallocDone) =>
       /\ v = Pre.v
       /\ hnd[RH].ref = Pre.hnd[RH].ref
       /\ hnd[RH].str = ReallocPtr
       /\ \A a \in Addr : a # ReallocPtr /\ a = Pre.hnd[RH].str => ~mem[a].live
       /\ \A k \in Slot : (v[k].tt = "STRING" /\ v[k].handle = RH) =>
            /\ CSTR([hnd |-> hnd], v[k]) = ReallocPtr
            /\ mem[CSTR([hnd |-> hnd], v[k])].b = mem[ReallocPtr].b

C3_Witness ==
  /\ call.op = "append"
  /\ \E i \in Events("realloc") : ev[i].k = "move"
  /\ v[1] = Recv
  /\ call.F[1].tt = "FIXNUM"
  /\ CurBytes(v[1]) # PreBytes(Recv)

AppendIntCase ==
  call.op = "append" /\ call.F[1].tt = "FIXNUM" /\ WellFormed(Recv) /\ ReallocDone
\* C4 as stated: << with an integer n, for every n, makes the length one
\* more, keeps the bytes before, and makes the last byte n mod 256.
C4_AppendAnyInt ==
  AppendIntCase =>
    CurBytes(Recv) = Append(PreBytes(Recv), call.F[1].i % 256)

\* C4 amended: the buffer becomes length + 2 bytes holding the bytes
\* before, then n mod 256, then a terminator; so the length is one more and
\* the last byte is n mod 256 when n mod 256 is not 0, and the string reads
\* as before when n mod 256 is 0.
C4_AppendByte ==
  AppendIntCase =>
    LET r == PreBytes(Recv)
        a == hnd[RH].str
    IN /\ a \in Addr /\ mem[a].live
       /\ mem[a].b = r \o <<call.F[1].i % 256, 0>>
       /\ call.F[1].i % 256 # 0 => CurBytes(Recv) = Append(r, call.F[1].i % 256)
       /\ call.F[1].i % 256 = 0 => CurBytes(Recv) = r

C4_Witness ==
  /\ AppendIntCase
  /\ call.F[1].i = 0 - 159
  /\ Len(PreBytes(Recv)) = 2
  /\ CurBytes(Recv) = Append(PreBytes(Recv), 97)

\* C5: []= with well-typed arguments prints IndexError and changes nothing,
\* without a reallocation, exactly when the adjusted index is < 0 or
\* > length or the clamped span is < 0; otherwise it goes on to reallocate.
C5_IndexErrorExactly ==
  InsertCase =>
    /\ (con = "IndexError\n") <=> InsIndexError
    /\ InsIndexError => (Events("realloc") = {} /\ v = Pre.v /\ hnd = Pre.hnd /\ mem = Pre.mem)
    /\ ~InsIndexError => Events("realloc") # {}

C5_Witness ==
  /\ InsertCase
  /\ con = "IndexError\n"
  /\ call.argc = 3
  /\ call.F[1].i = 0 /\ call.F[2].i = 0 - 1

\* [] with well-typed arguments on a terminated receiver.
SliceCase(argc) ==
  /\ call.op = "slice" /\ call.argc = argc
  /\ \A k \in 1..argc : call.F[k].tt = "FIXNUM"
  /\ WellFormed(Recv)
IsResult(bs) ==
  /\ Fresh(v[0])
  /\ hnd[v[0].handle].live /\ hnd[v[0].handle].ref = 1
  /\ mem[hnd[v[0].handle].str].b = Append(bs, 0)

\* C6: self[i, n] on a receiver r of length L, when the allocation succeeds,
\* puts in slot 0 a new string of the min(n, L - i') bytes of r from i' when
\* i' >= 0 and min(n, L - i') >= 0, and nil otherwise; it prints nothing and
\* reads the receiver only at offsets within [0, L].
C6_RangeRead ==
  (SliceCase(2) /\ ~NewFailed) =>
    LET r == PreBytes(Recv)
        L == Len(r)
        i2 == SpecIdx(call.F[1].i, L)
        n2 == Min(call.F[2].i, L - i2)
    IN /\ (i2 >= 0 /\ n2 >= 0) => IsResult(SubSeq(r, i2 + 1, i2 + n2))
       /\ ~(i2 >= 0 /\ n2 >= 0) => v[0] = NilVal
       /\ con = ""
       /\ ~ReadsOutside(L + 1)

C6_Witness ==
  /\ SliceCase(2) /\ NewDone
  /\ call.F[1].i = 0 - 1 /\ call.F[2].i = 100
  /\ Len(PreBytes(Recv)) = MaxLen
  /\ IsResult(<<PreBytes(Recv)[MaxLen]>>)

\* C7: self[i] on a receiver r of length L, when the allocation succeeds,
\* puts in slot 0 a new one-byte string holding r[i'] when the adjusted index
\* i' is in [0, L), and nil for every other index; it prints nothing and
\* reads no byte outside the receiver's buffer.
C7_SingleIndexRead ==
  (SliceCase(1) /\ ~NewFailed) =>
    LET r == PreBytes(Recv)
        L == Len(r)
        i2 == SpecIdx(call.F[1].i, L)
    IN /\ (i2 >= 0 /\ i2 < L) => IsResult(<<r[i2 + 1]>>)
       /\ ~(i2 >= 0 /\ i2 < L) => v[0] = NilVal
       /\ con = ""
       /\ ~ReadsOutside(L + 1)

C7_Witness ==
  /\ SliceCase(1) /\ NewDone
  /\ call.F[1].i = 0 - 1
  /\ PreBytes(Recv) = <<97, 49>>
  /\ IsResult(<<49>>)

OverwritingOps == {"add", "size", "neq", "to_i", "slice", "ord"}
\* C8: in + size != to_i [] ord, when slot 0 is overwritten there is exactly
\* one release of the receiver, before the overwrite and after every read
\* through the receiver's handle, and the receiver's reference count goes
\* down by one; when slot 0 is not overwritten there is no release and the
\* receiver's handle is as before.
C8_ReleaseBeforeOverwrite ==
  call.op \in OverwritingOps =>
    LET W == Events("write")
        R == Events("release")
    IN /\ Cardinality(W) <= 1
       /\ W # {} =>
            /\ Cardinality(R) = 1
            /\ \A x \in R :
                 /\ ev[x].h = RH
                 /\ \A w \in W : x < w
                 /\ \A i \in Events("read") : ev[i].h = RH => i < x
            /\ IF Pre.hnd[RH].ref = 1 THEN ~hnd[RH].live
               ELSE hnd[RH] = [Pre.hnd[RH] EXCEPT !.ref = @ - 1]
       /\ W = {} =>
            /\ R = {}
            /\ v[0] = Recv
            /\ hnd[RH] = Pre.hnd[RH]

C8_Witness ==
  /\ call.op = "add"
  /\ NewDone
  /\ Events("write") # {} /\ Events("release") # {}
  /\ Fresh(v[0])
  /\ Pre.hnd[RH].ref = 2 /\ hnd[RH].ref = 1

\* C9: every live string handle points at a live block that holds a
\* terminator, so that length + 1 <= the allocated size.
C9_TerminatorInside ==
  \A h \in Handle : hnd[h].live =>
    /\ hnd[h].str \in Addr /\ mem[hnd[h].str].live
    /\ \E k \in 1..Len(mem[hnd[h].str].b) : mem[hnd[h].str].b[k] = 0

\* C10: in << and []=, after a successful reallocation no read goes through
\* the receiver's handle (whose pointer is the old one until the handle is
\* updated), and with the receiver itself as operand or replacement the
\* result is the receiver's bytes appended to, or spliced into, themselves.
C10_NoReadThroughOldPointer ==
  (call.op \in {"append", "insert"} /\ WellFormed(Recv) /\ ReallocDone) =>
    /\ \A i \in Events("realloc") : \A j \in Events("read") :
         (j > i /\ ev[j].k # "none") => ev[j].h # RH
    /\ (call.op = "append" /\ call.F[1] = Recv) =>
         CurBytes(Recv) = PreBytes(Recv) \o PreBytes(Recv)
    /\ (InsertTyped /\ InsVal = Recv) =>
         CurBytes(Recv) = Spliced(PreBytes(Recv), InsIdx, InsSpan, PreBytes(Recv))

====
